---- MODULE Spec2Model ----
(***************************************************************************)
(* Model of src/src/App.js (Smart Points Tracker): the React component's   *)
(* state, its handlers and effects, the Firestore collection it writes to  *)
(* and subscribes to, and the Gemini nutrient lookup.                       *)
(*                                                                         *)
(* One action is one synchronous run of a handler, callback or effect up   *)
(* to its next await, together with the effects React runs for the state   *)
(* it changed.  The `disabled` attributes of the buttons are presentation  *)
(* and are not modelled: every handler can be invoked in every state, so   *)
(* the guards the handlers carry themselves are what is checked.           *)
(***************************************************************************)
EXTENDS Integers, Sequences, FiniteSets

\* ------------------------------------------------------------ bounds
MaxDocs == 2        \* documents the store ever creates (ids 1..MaxDocs)
MaxOps == 2         \* addDoc/deleteDoc calls awaiting the store at once
MaxFeed == 2        \* notifications queued for the snapshot listener
MaxSubs == 2        \* subscriptions ever opened
MaxLookups == 1     \* lookup requests awaiting the oracle at once
ExpiryTicks == 2    \* clock ticks that make up the 5000 ms expiry delay
MaxRequests == 1    \* advisory requests awaiting the oracle at once

\* ------------------------------------------------------------ values
NoUser == "none"
Users == {"u1", "u2"}
FoodNames == {"", "apple", "pie"}

MsgInitFailed == "There was a problem loading the application. Please try again later."
MsgAuthFailed == "Could not connect to the database. Please refresh."
MsgLoadFailed == "Failed to load food log. Please check your connection."
MsgEnterName == "Please enter a food name."
MsgLookupFirst == "Please look up a food item first."
MsgNotConnected == "Database not connected."
MsgSaveFailed == "Failed to save food item."
MsgDeleteFailed == "Failed to delete food item."
MsgClearFailed == "Failed to clear entire log."
MsgNoData == "Could not find nutritional data."
MsgApiStatus == "API request failed with status 500"
MsgNetwork == "Failed to fetch"
MsgBadJson == "Unexpected token in JSON"
MsgTypeError == "Cannot read properties of undefined (reading 'toString')"
MsgLogFirst == "Log at least one food item to get an analysis."

\* The order in which handleFoodLookup stores the reply's numeric fields.
FieldOrder == <<"calories", "protein", "carbs", "fat", "fiber">>
FieldNames == {FieldOrder[i] : i \in 1..Len(FieldOrder)}
EmptyFields == [f \in FieldNames |-> ""]

\* A JSON value of the oracle's reply: a number, a string, or absent.
NumVal(n) == [t |-> "num", n |-> n, s |-> ""]
StrVal(s) == [t |-> "str", n |-> 0, s |-> s]
Absent == [t |-> "absent", n |-> 0, s |-> ""]
JsonVals == {NumVal(7), StrVal("abc"), Absent}
\* isZeroPoint as the reply carries it: a boolean, a string, or absent.
ZeroPointVals == {"true", "false", "abc", "undefined"}

\* Number.prototype.toString / String.prototype.toString.
numToString(n) == CASE n = 0 -> "0" [] n = 7 -> "7" [] OTHER -> "NaN"
toString(v) == IF v.t = "num" THEN numToString(v.n) ELSE v.s

\* The number NaN.
NaN == [t |-> "nan", n |-> 0, s |-> ""]

\* The texts the model reads as numbers, and the number each one denotes.
NumberTexts == {"0", "1", "2", "7", "25", "33", "45"}
TextToNumber(s) ==
    CASE s = "0" -> 0 [] s = "1" -> 1 [] s = "2" -> 2 [] s = "7" -> 7
      [] s = "25" -> 25 [] s = "33" -> 33 [] OTHER -> 45

\* parseFloat: a number is itself, a text that starts with a number is that
\* number, anything else (undefined, "", "abc") is NaN.
parseFloat(v) ==
    IF v.t = "num" THEN v
    ELSE IF v.t = "str" /\ v.s \in NumberTexts THEN NumVal(TextToNumber(v.s))
    ELSE NaN

\* x || y on numbers: NaN and 0 are falsy.
OrElse(x, y) == IF x.t = "nan" \/ x.n = 0 THEN y ELSE x.n

\* A value in a condition: the strings "true", "false", "abc", "undefined"
\* stand for true, false, a non-empty string and undefined.
Truthy(z) == z \in {"true", "abc"}

Min(a, b) == IF a <= b THEN a ELSE b
Max(a, b) == IF a >= b THEN a ELSE b

\* The numbers of calculatePoints are kept exact: pointsPerUnit is held as its
\* numerator over PointsScale, the common denominator of /33, /9 and /10/5.
PointsScale == 33 * 9 * 50

\* Math.round of n / d (d > 0): the nearest integer, a half going up.
Round(n, d) == (2 * n + d) \div (2 * d)

\* Lines 22-25: parseFloat(x) || 0.
Grams(v) == OrElse(parseFloat(v), 0)

\* Line 26.
cal(it) ==
    OrElse(parseFloat(it.calories),
           (Grams(it.protein) * 4) + (Grams(it.carbs) * 4) + (Grams(it.fat) * 9))

\* Line 27.
qty(it) == OrElse(parseFloat(it.quantity), 1)

\* Line 29, times PointsScale: (cal / 33) + (f / 9) - (Math.min(fi, c / 10) / 5).
pointsPerUnit(it) ==
    (450 * cal(it)) + (1650 * Grams(it.fat))
        - (297 * Min(10 * Grams(it.fiber), Grams(it.carbs)))

\* calculatePoints without Math.max(0, ...).
calculatePointsUnclamped(it) ==
    IF Truthy(it.isZeroPoint) THEN 0
    ELSE Round(pointsPerUnit(it) * qty(it), PointsScale)

\* calculatePoints of lines 18-34.
calculatePoints(it) ==
    IF Truthy(it.isZeroPoint) THEN 0
    ELSE Max(0, Round(pointsPerUnit(it) * qty(it), PointsScale))

\* The items calculatePoints is checked on: every field absent, unparseable
\* or a number, as text or as a number.
Items ==
    [calories : {Absent, StrVal("abc"), NumVal(0), NumVal(1), StrVal("33")},
     protein : {Absent, NumVal(0), NumVal(25)},
     carbs : {StrVal("abc"), NumVal(0), NumVal(25), StrVal("45")},
     fat : {Absent, NumVal(0), StrVal("7")},
     fiber : {StrVal("abc"), NumVal(0), NumVal(2), NumVal(7)},
     quantity : {Absent, StrVal("abc"), NumVal(0), NumVal(1), StrVal("2")},
     isZeroPoint : ZeroPointVals]

\* The units of the select of line 315 that the model uses.
Units == {"serving", "g"}
\* What the quantity input can hold when the form is submitted (line 313):
\* nothing, or a number of at least 0.01.
QuantityTexts == {"", "2"}

\* String.prototype.trim on the names of the model.
Trim(s) == IF s = " " THEN "" ELSE s

WellTyped(r) ==
    /\ \A f \in FieldNames : r.data[f].t = "num"
    /\ r.isZeroPoint \in {"true", "false"}

Deviations(r) ==
    Cardinality({f \in FieldNames : r.data[f].t # "num"})
        + (IF r.isZeroPoint \in {"true", "false"} THEN 0 ELSE 1)

\* What the oracle may answer: a reply the schema allows, or one that
\* deviates from it in one field.
Replies ==
    {r \in [data : [FieldNames -> JsonVals], isZeroPoint : ZeroPointVals] :
        Deviations(r) <= 1}

\* How a lookup request can end before any parsed reply is read.
FetchErrors == {"network", "status", "nocandidate", "badjson"}
FetchErrorMsg(k) ==
    CASE k = "network" -> MsgNetwork
      [] k = "status" -> MsgApiStatus
      [] k = "nocandidate" -> MsgNoData
      [] OTHER -> MsgBadJson

VARIABLES
    life,           \* "constructed" | "mounted" | "unmounted"
    db,             \* the Firestore handle is set
    userId,         \* NoUser or a user
    isAuthReady,
    foodLog,        \* the local view: a set of documents
    isLoading,
    error,          \* the message slot, "" when empty
    timer,          \* ticks left on the debounce timer, -1 when none is set
    age,            \* ticks since a message was last raised (capped)
    isFetching,
    lookupSuccess,
    foodName,
    fields,         \* calories, protein, carbs, fat, fiber as text
    isZeroPoint,
    lookups,        \* lookup requests awaiting the oracle
    remote,         \* the store: documents [id, user] of every user
    nextId,
    sub,            \* the subscription the listener effect holds, 0 when none
    nextSub,
    listeners,      \* listeners the store has registered: [id, user]
    released,       \* subscriptions the effect cleanup has released
    feed,           \* notifications on their way to the listener callback
    ops,            \* addDoc/deleteDoc calls awaiting the store
    clear,          \* the clear in progress
    quantity,       \* the quantity input: the number 1, or the text typed
    unit,
    uncaught,       \* a handler's promise rejected with nothing to catch it
    isGenerating,
    isModalOpen,
    modalContent,   \* what the modal shows
    requests,       \* advisory requests awaiting the oracle
    item,           \* the item calculatePoints is applied to
    points          \* what calculatePoints returned for it

vars == <<life, db, userId, isAuthReady, foodLog, isLoading, error, timer, age,
          isFetching, lookupSuccess, foodName, fields, isZeroPoint, lookups,
          remote, nextId, sub, nextSub, listeners, released, feed, ops, clear,
          quantity, unit, uncaught, isGenerating, isModalOpen, modalContent,
          requests, item, points>>

authVars == <<life, db, userId, isAuthReady>>
slotVars == <<error, timer, age>>
formVars == <<isFetching, lookupSuccess, foodName, fields, isZeroPoint, lookups>>
storeVars == <<remote, nextId>>
subVars == <<sub, nextSub, listeners, released>>
entryVars == <<quantity, unit>>
advisorVars == <<isGenerating, isModalOpen, modalContent, requests>>
pointVars == <<item, points>>
logVars == <<foodLog, isLoading, storeVars, subVars, feed, ops, clear>>

\* The clear in progress: the entries getDocs enumerated, those deleteDoc was
\* called for, those still awaiting the store, those whose deletion failed,
\* and how many times the clear made its failure message appear in the slot.
IdleClear == [phase |-> "idle", user |-> NoUser, enumerated |-> {},
              attempted |-> {}, pending |-> {}, failed |-> {}, reports |-> 0]

\* The item previewPoints is computed from (line 252).
FormItem ==
    [calories |-> StrVal(fields["calories"]), protein |-> StrVal(fields["protein"]),
     carbs |-> StrVal(fields["carbs"]), fat |-> StrVal(fields["fat"]),
     fiber |-> StrVal(fields["fiber"]), quantity |-> quantity,
     isZeroPoint |-> isZeroPoint]

\* calculatePoints has not been applied yet.
NotComputed == -1

\* The state in which calculatePoints is about to be applied to an item.
PointsInit ==
    /\ life = "constructed"
    /\ db = FALSE
    /\ userId = NoUser
    /\ isAuthReady = FALSE
    /\ foodLog = {}
    /\ isLoading = TRUE
    /\ error = ""
    /\ timer = -1
    /\ age = 0
    /\ isFetching = FALSE
    /\ lookupSuccess = FALSE
    /\ foodName = ""
    /\ fields = EmptyFields
    /\ isZeroPoint = "false"
    /\ lookups = <<>>
    /\ remote = {}
    /\ nextId = 1
    /\ sub = 0
    /\ nextSub = 1
    /\ listeners = {}
    /\ released = {}
    /\ feed = <<>>
    /\ ops = <<>>
    /\ clear = IdleClear
    /\ quantity = NumVal(1)
    /\ unit = "serving"
    /\ uncaught = FALSE
    /\ isGenerating = FALSE
    /\ isModalOpen = FALSE
    /\ modalContent = "none"
    /\ requests = <<>>
    /\ item \in Items
    /\ points = NotComputed

Init ==
    /\ life = "constructed"
    /\ db = FALSE
    /\ userId = NoUser
    /\ isAuthReady = FALSE
    /\ foodLog = {}
    /\ isLoading = TRUE
    /\ error = ""
    /\ timer = -1
    /\ age = 0
    /\ isFetching = FALSE
    /\ lookupSuccess = FALSE
    /\ foodName = ""
    /\ fields = EmptyFields
    /\ isZeroPoint = "false"
    /\ lookups = <<>>
    /\ remote = {}
    /\ nextId = 1
    /\ sub = 0
    /\ nextSub = 1
    /\ listeners = {}
    /\ released = {}
    /\ feed = <<>>
    /\ ops = <<>>
    /\ clear = IdleClear
    /\ quantity = NumVal(1)
    /\ unit = "serving"
    /\ uncaught = FALSE
    /\ isGenerating = FALSE
    /\ isModalOpen = FALSE
    /\ modalContent = "none"
    /\ requests = <<>>
    /\ item = FormItem
    /\ points = NotComputed

\* ------------------------------------------------------------ message slot
\* The debounced clear: the effect of line 290 runs when `error` changes, and
\* restarts the timer when the new value is non-empty.
TimerAfter(old, new, t) == IF new # old /\ new # "" THEN ExpiryTicks ELSE t

\* setError(msg) and the effect that follows it.
SetError(msg) ==
    /\ error' = msg
    /\ timer' = TimerAfter(error, msg, timer)
    /\ age' = IF msg # "" THEN 0 ELSE age

\* The clock advances while a timer is pending.
Tick ==
    /\ timer > 0
    /\ timer' = timer - 1
    /\ age' = IF age < ExpiryTicks THEN age + 1 ELSE age
    /\ UNCHANGED <<authVars, foodLog, isLoading, error, formVars, storeVars,
                   subVars, feed, ops, clear>>
    /\ UNCHANGED <<entryVars, uncaught, advisorVars, pointVars>>

\* The timer fires: setError('').
Expire ==
    /\ timer = 0
    /\ life = "mounted"
    /\ error' = ""
    /\ timer' = -1
    /\ UNCHANGED <<authVars, foodLog, isLoading, age, formVars, storeVars,
                   subVars, feed, ops, clear>>
    /\ UNCHANGED <<entryVars, uncaught, advisorVars, pointVars>>

\* ------------------------------------------------------------ session
\* The mount effect of lines 91-123: initializeApp and getFirestore succeed
\* and the auth listener is registered, or one of them throws.
InitEffect(ok) ==
    /\ life = "constructed"
    /\ life' = "mounted"
    /\ IF ok
       THEN /\ db' = TRUE
            /\ UNCHANGED <<isLoading, slotVars>>
       ELSE /\ db' = FALSE
            /\ isLoading' = FALSE
            /\ SetError(MsgInitFailed)
    /\ UNCHANGED <<userId, isAuthReady, foodLog, formVars, storeVars, subVars,
                   feed, ops, clear>>
    /\ UNCHANGED <<entryVars, uncaught, advisorVars, pointVars>>

\* The documents of one user's collection.
Collection(r, u) == {d \in r : d.user = u}

Snapshot(s, docs) == [sub |-> s, kind |-> "snap", docs |-> docs]
ErrorNote(s) == [sub |-> s, kind |-> "err", docs |-> {}]

\* Unsubscribe as a cleanup that forgets to call unsubscribe() would leave it.
UnsubscribeSkipped(st, s) == st

\* unsubscribe() of line 146, on the store's side st = [listeners, feed]: the
\* listener is dropped and nothing queued for it is delivered any more.
Unsubscribe(st, s) ==
    [listeners |-> {l \in st.listeners : l.id # s},
     feed |-> SelectSeq(st.feed, LAMBDA n : n.sub # s)]

\* The cleanup the listener effect returned, if it returned one.
AfterCleanup ==
    IF sub # 0
    THEN Unsubscribe([listeners |-> listeners, feed |-> feed], sub)
    ELSE [listeners |-> listeners, feed |-> feed]

\* ListenerEffect as an effect that returns no cleanup would run.
ListenerEffectNoCleanup(ready, uid) ==
    /\ UNCHANGED released
    /\ IF ready /\ db /\ uid # NoUser
       THEN /\ nextSub <= MaxSubs
            /\ Len(feed) < MaxFeed
            /\ isLoading' = TRUE
            /\ sub' = nextSub
            /\ nextSub' = nextSub + 1
            /\ listeners' = listeners \cup {[id |-> nextSub, user |-> uid]}
            /\ feed' = Append(feed, Snapshot(nextSub, Collection(remote, uid)))
       ELSE /\ sub' = 0
            /\ UNCHANGED <<listeners, feed, isLoading, nextSub>>

\* The listener effect of lines 126-148, run when isAuthReady, db or userId
\* changed to (ready, uid): the previous effect's cleanup, then a new
\* subscription when all three are set.  The store queues the first snapshot.
ListenerEffect(ready, uid) ==
    LET st == AfterCleanup IN
    /\ released' = IF sub # 0 THEN released \cup {sub} ELSE released
    /\ IF ready /\ db /\ uid # NoUser
       THEN /\ nextSub <= MaxSubs
            /\ Len(st.feed) < MaxFeed
            /\ isLoading' = TRUE
            /\ sub' = nextSub
            /\ nextSub' = nextSub + 1
            /\ listeners' = st.listeners \cup {[id |-> nextSub, user |-> uid]}
            /\ feed' = Append(st.feed, Snapshot(nextSub, Collection(remote, uid)))
       ELSE /\ sub' = 0
            /\ listeners' = st.listeners
            /\ feed' = st.feed
            /\ UNCHANGED <<isLoading, nextSub>>

\* onAuthStateChanged calls back with a user (lines 102-103, 116).
AuthUser(u) ==
    /\ life = "mounted" /\ db
    /\ u # userId \/ ~isAuthReady
    /\ userId' = u
    /\ isAuthReady' = TRUE
    /\ ListenerEffect(TRUE, u)
    /\ UNCHANGED <<life, db, foodLog, slotVars, formVars, storeVars, ops, clear>>
    /\ UNCHANGED <<entryVars, uncaught, advisorVars, pointVars>>

\* onAuthStateChanged calls back with no user (lines 104-116): the sign-in
\* is awaited and succeeds (the callback with the user follows) or throws.
AuthNone(ok) ==
    /\ life = "mounted" /\ db
    /\ isAuthReady' = TRUE
    /\ IF ok THEN UNCHANGED slotVars ELSE SetError(MsgAuthFailed)
    /\ IF isAuthReady
       THEN UNCHANGED <<isLoading, subVars, feed>>
       ELSE ListenerEffect(TRUE, userId)
    /\ UNCHANGED <<life, db, userId, foodLog, formVars, storeVars, ops, clear>>
    /\ UNCHANGED <<entryVars, uncaught, advisorVars, pointVars>>

\* The component unmounts: the listener effect's cleanup runs.
Unmount ==
    /\ life = "mounted"
    /\ life' = "unmounted"
    /\ released' = IF sub # 0 THEN released \cup {sub} ELSE released
    /\ listeners' = AfterCleanup.listeners
    /\ feed' = AfterCleanup.feed
    /\ UNCHANGED <<db, userId, isAuthReady, foodLog, isLoading, slotVars,
                   formVars, storeVars, sub, nextSub, ops, clear>>
    /\ UNCHANGED <<entryVars, uncaught, advisorVars, pointVars>>

\* The store gives up a listener (permission denied, connection lost): it
\* reports the error once and sends that listener nothing more.
StoreError(l) ==
    /\ l \in listeners
    /\ Len(feed) < MaxFeed
    /\ listeners' = listeners \ {l}
    /\ feed' = Append(feed, ErrorNote(l.id))
    /\ UNCHANGED <<authVars, foodLog, isLoading, slotVars, formVars, storeVars,
                   sub, nextSub, released, ops, clear>>
    /\ UNCHANGED <<entryVars, uncaught, advisorVars, pointVars>>

\* Deliver as a callback that merges the snapshot into the list would do it.
DeliverMerging ==
    /\ feed # <<>>
    /\ feed' = Tail(feed)
    /\ isLoading' = FALSE
    /\ IF Head(feed).kind = "snap"
       THEN /\ foodLog' = foodLog \cup Head(feed).docs
            /\ UNCHANGED slotVars
       ELSE /\ SetError(MsgLoadFailed)
            /\ UNCHANGED foodLog
    /\ UNCHANGED <<authVars, formVars, storeVars, subVars, ops, clear>>
    /\ UNCHANGED <<entryVars, uncaught, advisorVars, pointVars>>

\* The onSnapshot callbacks of lines 133-144, on the next notification.
Deliver ==
    /\ feed # <<>>
    /\ feed' = Tail(feed)
    /\ isLoading' = FALSE
    /\ IF Head(feed).kind = "snap"
       THEN /\ foodLog' = Head(feed).docs
            /\ UNCHANGED slotVars
       ELSE /\ SetError(MsgLoadFailed)
            /\ UNCHANGED foodLog
    /\ UNCHANGED <<authVars, formVars, storeVars, subVars, ops, clear>>
    /\ UNCHANGED <<entryVars, uncaught, advisorVars, pointVars>>

\* What the store queues after a write changed user u's collection to docs:
\* one snapshot per registered listener of that collection.
RECURSIVE EmitFrom(_, _, _, _, _)
EmitFrom(f, ls, u, docs, k) ==
    IF k >= nextSub THEN f
    ELSE EmitFrom(IF [id |-> k, user |-> u] \in ls
                  THEN Append(f, Snapshot(k, docs)) ELSE f,
                  ls, u, docs, k + 1)
Emit(f, ls, u, docs) == EmitFrom(f, ls, u, docs, 1)

\* The store applies a write that turns the collection set into r2.
StoreWrite(r2, u) ==
    /\ remote' = r2
    /\ IF Collection(r2, u) # Collection(remote, u)
       THEN /\ Len(Emit(feed, listeners, u, Collection(r2, u))) <= MaxFeed
            /\ feed' = Emit(feed, listeners, u, Collection(r2, u))
       ELSE UNCHANGED feed

\* ------------------------------------------------------------ lookup
\* resetNutrientFields of lines 150-153.
resetNutrientFields ==
    /\ fields' = EmptyFields
    /\ isZeroPoint' = "false"
    /\ lookupSuccess' = FALSE
    /\ SetError("")

\* SetFoodName without the effect of line 155.
SetFoodNameNoReset(n) ==
    /\ life = "mounted"
    /\ n # foodName
    /\ foodName' = n
    /\ UNCHANGED <<authVars, foodLog, isLoading, slotVars, isFetching,
                   lookupSuccess, fields, isZeroPoint, lookups, storeVars,
                   subVars, feed, ops, clear>>
    /\ UNCHANGED <<entryVars, uncaught, advisorVars, pointVars>>

\* The food name input changes (line 311); the effect of line 155 follows.
SetFoodName(n) ==
    /\ life = "mounted"
    /\ n # foodName
    /\ foodName' = n
    /\ resetNutrientFields
    /\ UNCHANGED <<authVars, foodLog, isLoading, isFetching, lookups,
                   storeVars, subVars, feed, ops, clear>>
    /\ UNCHANGED <<entryVars, uncaught, advisorVars, pointVars>>

\* handleFoodLookup up to its await (lines 158-181).
handleFoodLookup ==
    /\ life = "mounted"
    /\ IF Trim(foodName) = ""
       THEN /\ SetError(MsgEnterName)
            /\ UNCHANGED formVars
       ELSE /\ Len(lookups) < MaxLookups
            /\ isFetching' = TRUE
            /\ resetNutrientFields
            /\ lookups' = Append(lookups, [name |-> foodName])
            /\ UNCHANGED foodName
    /\ UNCHANGED <<authVars, foodLog, isLoading, storeVars, subVars, feed,
                   ops, clear>>
    /\ UNCHANGED <<entryVars, uncaught, advisorVars, pointVars>>

RemoveAt(q, i) == SubSeq(q, 1, i - 1) \o SubSeq(q, i + 1, Len(q))

\* LookupFails without the finally of line 195.
LookupFailsNoFinally(i, k) ==
    /\ life = "mounted"
    /\ i \in 1..Len(lookups)
    /\ lookups' = RemoveAt(lookups, i)
    /\ SetError(FetchErrorMsg(k))
    /\ lookupSuccess' = FALSE
    /\ UNCHANGED <<authVars, foodLog, isLoading, isFetching, foodName, fields,
                   isZeroPoint, storeVars, subVars, feed, ops, clear>>
    /\ UNCHANGED <<entryVars, uncaught, advisorVars, pointVars>>

\* The request ends without a parsed reply (lines 181-184, 190-195): fetch
\* throws, the status is not ok, there is no candidate text, or JSON.parse
\* throws.
LookupFails(i, k) ==
    /\ life = "mounted"
    /\ i \in 1..Len(lookups)
    /\ lookups' = RemoveAt(lookups, i)
    /\ SetError(FetchErrorMsg(k))
    /\ lookupSuccess' = FALSE
    /\ isFetching' = FALSE
    /\ UNCHANGED <<authVars, foodLog, isLoading, foodName, fields, isZeroPoint,
                   storeVars, subVars, feed, ops, clear>>
    /\ UNCHANGED <<entryVars, uncaught, advisorVars, pointVars>>

\* Lines 186-188: each numeric field of the reply is stored as text, in
\* FieldOrder; reading toString of a field the reply lacks throws, and the
\* fields stored before it stay stored.
RECURSIVE StoreFields(_, _, _)
StoreFields(fs, r, i) ==
    IF i > Len(FieldOrder) THEN [fields |-> fs, thrown |-> FALSE]
    ELSE IF r.data[FieldOrder[i]].t = "absent" THEN [fields |-> fs, thrown |-> TRUE]
    ELSE StoreFields([fs EXCEPT ![FieldOrder[i]] = toString(r.data[FieldOrder[i]])],
                     r, i + 1)

\* The request ends with a parsed reply r (lines 185-195).
LookupReply(i, r) ==
    /\ life = "mounted"
    /\ i \in 1..Len(lookups)
    /\ lookups' = RemoveAt(lookups, i)
    /\ fields' = StoreFields(fields, r, 1).fields
    /\ IF StoreFields(fields, r, 1).thrown
       THEN /\ SetError(MsgTypeError)
            /\ lookupSuccess' = FALSE
            /\ UNCHANGED isZeroPoint
       ELSE /\ isZeroPoint' = r.isZeroPoint
            /\ lookupSuccess' = TRUE
            /\ UNCHANGED slotVars
    /\ isFetching' = FALSE
    /\ UNCHANGED <<authVars, foodLog, isLoading, foodName, storeVars, subVars,
                   feed, ops, clear>>
    /\ UNCHANGED <<entryVars, uncaught, advisorVars, pointVars>>

\* The quantity input changes (line 313).
SetQuantity(t) ==
    /\ life = "mounted"
    /\ quantity # StrVal(t)
    /\ quantity' = StrVal(t)
    /\ UNCHANGED <<authVars, logVars, slotVars, formVars, unit, uncaught,
                   advisorVars, pointVars>>

\* The unit select changes (line 314).
SetUnit(un) ==
    /\ life = "mounted"
    /\ unit # un
    /\ unit' = un
    /\ UNCHANGED <<authVars, logVars, slotVars, formVars, quantity, uncaught,
                   advisorVars, pointVars>>

\* ------------------------------------------------------------ advisor
\* What prompt() can return to the onClick of line 353: nothing, or a meal.
MealTypes == {"", "Lunch"}

\* How an advisory request can end: with a usable reply, or with fetch
\* throwing, a status that is not ok, a body that does not parse, no
\* candidate text, or (suggest-meal) a reply without the suggestions array.
AdvisoryOutcomes == {"ok", "network", "status", "badjson", "nocandidate", "nolist"}

\* handleSuggestMeal up to its await (lines 198-218).
handleSuggestMeal(mealType) ==
    /\ life = "mounted"
    /\ IF mealType = ""
       THEN UNCHANGED advisorVars
       ELSE /\ Len(requests) < MaxRequests
            /\ isGenerating' = TRUE
            /\ modalContent' = "suggesting"
            /\ isModalOpen' = TRUE
            /\ requests' = Append(requests, [kind |-> "suggest"])
    /\ UNCHANGED <<authVars, logVars, slotVars, formVars, entryVars, uncaught,
                   pointVars>>

\* The suggest-meal request ends (lines 218-227).
SuggestDone(i, k) ==
    /\ life = "mounted"
    /\ i \in 1..Len(requests) /\ requests[i].kind = "suggest"
    /\ requests' = RemoveAt(requests, i)
    /\ modalContent' = IF k = "ok" THEN "suggestions" ELSE "error"
    /\ isGenerating' = FALSE
    /\ UNCHANGED <<authVars, logVars, slotVars, formVars, entryVars, uncaught,
                   isModalOpen, pointVars>>

\* handleAnalyzeDay without the guard of line 231.
handleAnalyzeDayUnguarded ==
    /\ life = "mounted"
    /\ Len(requests) < MaxRequests
    /\ isGenerating' = TRUE
    /\ modalContent' = "analyzing"
    /\ isModalOpen' = TRUE
    /\ requests' = Append(requests, [kind |-> "analyze"])
    /\ UNCHANGED <<authVars, logVars, slotVars, formVars, entryVars, uncaught,
                   pointVars>>

\* handleAnalyzeDay up to its await (lines 230-240).
handleAnalyzeDay ==
    /\ life = "mounted"
    /\ IF foodLog = {}
       THEN /\ SetError(MsgLogFirst)
            /\ UNCHANGED advisorVars
       ELSE /\ Len(requests) < MaxRequests
            /\ isGenerating' = TRUE
            /\ modalContent' = "analyzing"
            /\ isModalOpen' = TRUE
            /\ requests' = Append(requests, [kind |-> "analyze"])
            /\ UNCHANGED slotVars
    /\ UNCHANGED <<authVars, logVars, formVars, entryVars, uncaught, pointVars>>

\* The analyze-day request ends (lines 240-248); its reply is used as text.
AnalyzeDone(i, k) ==
    /\ life = "mounted"
    /\ i \in 1..Len(requests) /\ requests[i].kind = "analyze"
    /\ k # "nolist"
    /\ requests' = RemoveAt(requests, i)
    /\ modalContent' = IF k = "ok" THEN "analysis" ELSE "error"
    /\ isGenerating' = FALSE
    /\ UNCHANGED <<authVars, logVars, slotVars, formVars, entryVars, uncaught,
                   isModalOpen, pointVars>>

\* The modal's close button (lines 45, 295).
CloseModal ==
    /\ life = "mounted"
    /\ isModalOpen
    /\ isModalOpen' = FALSE
    /\ UNCHANGED <<authVars, logVars, slotVars, formVars, entryVars, uncaught,
                   isGenerating, modalContent, requests, pointVars>>

\* ------------------------------------------------------------ points
\* calculatePoints is applied to the item (lines 253, 256, 383).
ApplyCalculatePoints ==
    /\ points = NotComputed
    /\ points' = calculatePoints(item)
    /\ UNCHANGED <<authVars, logVars, slotVars, formVars, entryVars, uncaught,
                   advisorVars, item>>

\* ------------------------------------------------------------ log store
\* An addDoc call carries newFood (line 262), of which the model keeps the
\* name, the quantity and the unit; a deleteDoc call carries the entry's id.
AddOp(u, n, q, un) ==
    [kind |-> "add", user |-> u, id |-> 0, name |-> n, quantity |-> q, unit |-> un]
DelOp(u, id) ==
    [kind |-> "del", user |-> u, id |-> id, name |-> "", quantity |-> NaN,
     unit |-> ""]
Doc(id, u) == [id |-> id, user |-> u]

\* handleAddFood without its first guard.
handleAddFoodUngated ==
    /\ life = "mounted"
    /\ IF ~db \/ userId = NoUser
       THEN /\ SetError(MsgNotConnected)
            /\ UNCHANGED ops
       ELSE /\ Len(ops) < MaxOps
            /\ ops' = Append(ops, AddOp(userId, foodName, parseFloat(quantity), unit))
            /\ UNCHANGED slotVars
    /\ UNCHANGED <<authVars, foodLog, isLoading, formVars, storeVars, subVars,
                   feed, clear>>
    /\ UNCHANGED <<entryVars, uncaught, advisorVars, pointVars>>

\* handleAddFood up to its await (lines 258-265).
handleAddFood ==
    /\ life = "mounted"
    /\ IF ~lookupSuccess
       THEN /\ SetError(MsgLookupFirst)
            /\ UNCHANGED ops
       ELSE IF ~db \/ userId = NoUser
       THEN /\ SetError(MsgNotConnected)
            /\ UNCHANGED ops
       ELSE /\ Len(ops) < MaxOps
            /\ ops' = Append(ops, AddOp(userId, foodName, parseFloat(quantity), unit))
            /\ UNCHANGED slotVars
    /\ UNCHANGED <<authVars, foodLog, isLoading, formVars, storeVars, subVars,
                   feed, clear>>
    /\ UNCHANGED <<entryVars, uncaught, advisorVars, pointVars>>

\* AddDone with an optimistic insert of the new document into the view.
AddDoneOptimistic(i, ok) ==
    /\ life = "mounted"
    /\ i \in 1..Len(ops) /\ ops[i].kind = "add"
    /\ ops' = RemoveAt(ops, i)
    /\ IF ok
       THEN /\ nextId <= MaxDocs
            /\ nextId' = nextId + 1
            /\ StoreWrite(remote \cup {Doc(nextId, ops[i].user)}, ops[i].user)
            /\ foodLog' = foodLog \cup {Doc(nextId, ops[i].user)}
            /\ foodName' = ""
            /\ resetNutrientFields
            /\ quantity' = NumVal(1)
            /\ unit' = "serving"
       ELSE /\ SetError(MsgSaveFailed)
            /\ UNCHANGED <<storeVars, feed, foodName, fields, isZeroPoint,
                           lookupSuccess, foodLog, entryVars>>
    /\ UNCHANGED <<authVars, isLoading, isFetching, lookups, subVars, clear>>
    /\ UNCHANGED <<uncaught, advisorVars, pointVars>>

\* addDoc resolves or rejects (lines 265-267).  The document the store
\* creates is modelled by its id and owner; its content is the call's newFood.
AddDone(i, ok) ==
    /\ life = "mounted"
    /\ i \in 1..Len(ops) /\ ops[i].kind = "add"
    /\ ops' = RemoveAt(ops, i)
    /\ IF ok
       THEN /\ nextId <= MaxDocs
            /\ nextId' = nextId + 1
            /\ StoreWrite(remote \cup {Doc(nextId, ops[i].user)}, ops[i].user)
            /\ foodName' = ""
            /\ resetNutrientFields
            /\ quantity' = NumVal(1)
            /\ unit' = "serving"
       ELSE /\ SetError(MsgSaveFailed)
            /\ UNCHANGED <<storeVars, feed, foodName, fields, isZeroPoint,
                           lookupSuccess, entryVars>>
    /\ UNCHANGED <<authVars, foodLog, isLoading, isFetching, lookups, subVars,
                   clear>>
    /\ UNCHANGED <<uncaught, advisorVars, pointVars>>

\* handleDeleteFood up to its await (lines 270-274), on an entry of the view.
handleDeleteFood(foodId) ==
    /\ life = "mounted"
    /\ IF ~db \/ userId = NoUser
       THEN /\ SetError(MsgNotConnected)
            /\ UNCHANGED ops
       ELSE /\ Len(ops) < MaxOps
            /\ ops' = Append(ops, DelOp(userId, foodId))
            /\ UNCHANGED slotVars
    /\ UNCHANGED <<authVars, foodLog, isLoading, formVars, storeVars, subVars,
                   feed, clear>>
    /\ UNCHANGED <<entryVars, uncaught, advisorVars, pointVars>>

\* deleteDoc resolves or rejects (lines 274-275).
DeleteDone(i, ok) ==
    /\ life = "mounted"
    /\ i \in 1..Len(ops) /\ ops[i].kind = "del"
    /\ ops' = RemoveAt(ops, i)
    /\ IF ok
       THEN /\ StoreWrite(remote \ {Doc(ops[i].id, ops[i].user)}, ops[i].user)
            /\ UNCHANGED slotVars
       ELSE /\ SetError(MsgDeleteFailed)
            /\ UNCHANGED <<remote, feed>>
    /\ UNCHANGED <<authVars, foodLog, isLoading, formVars, nextId, subVars,
                   clear>>
    /\ UNCHANGED <<entryVars, uncaught, advisorVars, pointVars>>

\* handleClearLog without its guard.
handleClearLogUnguarded ==
    /\ life = "mounted"
    /\ clear.phase \in {"idle", "done"}
    /\ clear' = [IdleClear EXCEPT !.phase = "enumerating", !.user = userId]
    /\ UNCHANGED <<authVars, foodLog, isLoading, slotVars, formVars, storeVars,
                   subVars, feed, ops>>
    /\ UNCHANGED <<entryVars, uncaught, advisorVars, pointVars>>

\* handleClearLog up to its await of getDocs (lines 278-283).
handleClearLog ==
    /\ life = "mounted"
    /\ IF ~db \/ userId = NoUser
       THEN /\ SetError(MsgNotConnected)
            /\ UNCHANGED clear
       ELSE /\ clear.phase \in {"idle", "done"}
            /\ clear' = [IdleClear EXCEPT !.phase = "enumerating", !.user = userId]
            /\ UNCHANGED slotVars
    /\ UNCHANGED <<authVars, foodLog, isLoading, formVars, storeVars, subVars,
                   feed, ops>>
    /\ UNCHANGED <<entryVars, uncaught, advisorVars, pointVars>>

\* getDocs resolves and forEach calls deleteDoc for every entry (lines
\* 283-286), or getDocs rejects: the await of line 283 is in no try block, so
\* the handler's promise rejects and the onClick that called it drops it.
ClearEnumerated(ok) ==
    /\ life = "mounted"
    /\ clear.phase = "enumerating"
    /\ LET ids == {d.id : d \in Collection(remote, clear.user)} IN
       clear' = IF ok
                THEN [clear EXCEPT !.phase = IF ids = {} THEN "done" ELSE "deleting",
                                   !.enumerated = ids,
                                   !.attempted = ids,
                                   !.pending = ids]
                ELSE IdleClear
    /\ uncaught' = (uncaught \/ ~ok)
    /\ UNCHANGED <<authVars, foodLog, isLoading, slotVars, formVars, storeVars,
                   subVars, feed, ops>>
    /\ UNCHANGED <<entryVars, advisorVars, pointVars>>

\* One deleteDoc of the clear resolves or rejects (line 285).
ClearDelete(id, ok) ==
    /\ life = "mounted"
    /\ clear.phase = "deleting"
    /\ id \in clear.pending
    /\ IF ok
       THEN /\ StoreWrite(remote \ {Doc(id, clear.user)}, clear.user)
            /\ UNCHANGED slotVars
            /\ clear' = [clear EXCEPT
                   !.pending = @ \ {id},
                   !.phase = IF clear.pending = {id} THEN "done" ELSE @]
       ELSE /\ SetError(MsgClearFailed)
            /\ UNCHANGED <<remote, feed>>
            /\ clear' = [clear EXCEPT
                   !.pending = @ \ {id},
                   !.failed = @ \cup {id},
                   !.reports = IF error = MsgClearFailed THEN @ ELSE @ + 1,
                   !.phase = IF clear.pending = {id} THEN "done" ELSE @]
    /\ UNCHANGED <<authVars, foodLog, isLoading, formVars, nextId, subVars, ops>>
    /\ UNCHANGED <<entryVars, uncaught, advisorVars, pointVars>>

\* ------------------------------------------------------------ specifications
\* A reply the schema allows.
ValidReply == [data |-> [f \in FieldNames |-> NumVal(7)], isZeroPoint |-> "false"]

\* A reply that lacks a field: the handler throws while it stores it.
PartialReply == [ValidReply EXCEPT !.data["fat"] = Absent]

\* The lookup workflow and the add gate, for every reply of the oracle.
FormNext ==
    \/ \E ok \in BOOLEAN : InitEffect(ok)
    \/ \E u \in {"u1"} : AuthUser(u)
    \/ Deliver
    \/ \E n \in FoodNames : SetFoodName(n)
    \/ handleFoodLookup
    \/ \E i \in 1..MaxLookups, k \in FetchErrors : LookupFails(i, k)
    \/ \E i \in 1..MaxLookups, r \in Replies : LookupReply(i, r)
    \/ handleAddFood
    \/ \E i \in 1..MaxOps, ok \in BOOLEAN : AddDone(i, ok)

FormSpec == Init /\ [][FormNext]_vars

\* The log store adapter of one user: subscription, add, remove and clear,
\* with entries staged by lookups the oracle answers as asked.
LogNext ==
    \/ \E ok \in BOOLEAN : InitEffect(ok)
    \/ \E u \in {"u1"} : AuthUser(u)
    \/ \E l \in listeners : StoreError(l)
    \/ Deliver
    \/ \E n \in {"", "apple"} : SetFoodName(n)
    \/ handleFoodLookup
    \/ \E i \in 1..MaxLookups : LookupReply(i, ValidReply)
    \/ handleAddFood
    \/ \E i \in 1..MaxOps, ok \in BOOLEAN : AddDone(i, ok)
    \/ \E d \in foodLog : handleDeleteFood(d.id)
    \/ \E i \in 1..MaxOps, ok \in BOOLEAN : DeleteDone(i, ok)
    \/ handleClearLog
    \/ \E ok \in BOOLEAN : ClearEnumerated(ok)
    \/ \E id \in 1..MaxDocs, ok \in BOOLEAN : ClearDelete(id, ok)

LogSpec == Init /\ [][LogNext]_vars

\* The event loop runs every queued listener callback.
FairLogSpec == LogSpec /\ WF_vars(Deliver)

\* The session: sign-in, change of user, unmount, and the subscription that
\* follows them, with adds and removes in flight.
SessionNext ==
    \/ \E ok \in BOOLEAN : InitEffect(ok)
    \/ \E u \in Users : AuthUser(u)
    \/ \E ok \in BOOLEAN : AuthNone(ok)
    \/ Unmount
    \/ \E l \in listeners : StoreError(l)
    \/ Deliver
    \/ \E n \in {"", "apple"} : SetFoodName(n)
    \/ handleFoodLookup
    \/ \E i \in 1..MaxLookups : LookupReply(i, ValidReply)
    \/ handleAddFood
    \/ \E i \in 1..MaxOps, ok \in BOOLEAN : AddDone(i, ok)
    \/ \E d \in foodLog : handleDeleteFood(d.id)
    \/ \E i \in 1..MaxOps, ok \in BOOLEAN : DeleteDone(i, ok)

SessionSpec == Init /\ [][SessionNext]_vars

\* The message slot under the clock, with the handlers that raise a message
\* and those that reset the nutrient fields.
SlotNext ==
    \/ Tick
    \/ Expire
    \/ \E ok \in BOOLEAN : InitEffect(ok)
    \/ \E u \in {"u1"} : AuthUser(u)
    \/ \E ok \in BOOLEAN : AuthNone(ok)
    \/ Deliver
    \/ \E n \in {"", "apple"} : SetFoodName(n)
    \/ handleFoodLookup
    \/ \E i \in 1..MaxLookups, k \in {"network"} : LookupFails(i, k)
    \/ \E i \in 1..MaxLookups : LookupReply(i, ValidReply)
    \/ handleAddFood
    \/ \E i \in 1..MaxOps, ok \in BOOLEAN : AddDone(i, ok)

SlotSpec == Init /\ [][SlotNext]_vars

\* The advisory workflows beside a log that lookups and adds fill.
AdvisorNext ==
    \/ \E ok \in BOOLEAN : InitEffect(ok)
    \/ \E u \in {"u1"} : AuthUser(u)
    \/ Deliver
    \/ \E n \in {"", "apple"} : SetFoodName(n)
    \/ handleFoodLookup
    \/ \E i \in 1..MaxLookups, k \in FetchErrors : LookupFails(i, k)
    \/ \E i \in 1..MaxLookups, r \in {ValidReply, PartialReply} : LookupReply(i, r)
    \/ handleAddFood
    \/ \E i \in 1..MaxOps, ok \in BOOLEAN : AddDone(i, ok)
    \/ \E m \in MealTypes : handleSuggestMeal(m)
    \/ \E i \in 1..MaxRequests, k \in AdvisoryOutcomes : SuggestDone(i, k)
    \/ handleAnalyzeDay
    \/ \E i \in 1..MaxRequests, k \in AdvisoryOutcomes : AnalyzeDone(i, k)
    \/ CloseModal

AdvisorSpec == Init /\ [][AdvisorNext]_vars

\* The entry form: name, quantity and unit edits, lookups the oracle answers
\* as asked, and adds.
EntryNext ==
    \/ \E ok \in BOOLEAN : InitEffect(ok)
    \/ \E u \in {"u1"} : AuthUser(u)
    \/ Deliver
    \/ \E n \in {"", "apple"} : SetFoodName(n)
    \/ \E t \in QuantityTexts : SetQuantity(t)
    \/ \E un \in Units : SetUnit(un)
    \/ handleFoodLookup
    \/ \E i \in 1..MaxLookups : LookupReply(i, ValidReply)
    \/ handleAddFood
    \/ \E i \in 1..MaxOps, ok \in BOOLEAN : AddDone(i, ok)

EntrySpec == Init /\ [][EntryNext]_vars

\* The time before and after sign-in: the handlers of the log called at any
\* moment, a remove also for an entry the view does not show.
InertNext ==
    \/ \E ok \in BOOLEAN : InitEffect(ok)
    \/ \E u \in {"u1"} : AuthUser(u)
    \/ \E ok \in BOOLEAN : AuthNone(ok)
    \/ Deliver
    \/ \E n \in {"", "apple"} : SetFoodName(n)
    \/ handleFoodLookup
    \/ \E i \in 1..MaxLookups : LookupReply(i, ValidReply)
    \/ handleAddFood
    \/ \E i \in 1..MaxOps, ok \in BOOLEAN : AddDone(i, ok)
    \/ \E id \in 1..MaxDocs : handleDeleteFood(id)
    \/ \E i \in 1..MaxOps, ok \in BOOLEAN : DeleteDone(i, ok)
    \/ handleClearLog
    \/ \E ok \in BOOLEAN : ClearEnumerated(ok)
    \/ \E id \in 1..MaxDocs, ok \in BOOLEAN : ClearDelete(id, ok)

InertSpec == Init /\ [][InertNext]_vars

\* One pending entry: the oracle answers lookups until the first add is
\* issued, so every add is an add of the entry the last lookup staged.
OneEntryNext ==
    \/ \E ok \in BOOLEAN : InitEffect(ok)
    \/ \E u \in {"u1"} : AuthUser(u)
    \/ Deliver
    \/ \E n \in {"", "apple"} : SetFoodName(n)
    \/ \E t \in QuantityTexts : SetQuantity(t)
    \/ handleFoodLookup
    \/ \E i \in 1..MaxLookups :
           ops = <<>> /\ nextId = 1 /\ LookupReply(i, ValidReply)
    \/ handleAddFood
    \/ \E i \in 1..MaxOps, ok \in BOOLEAN : AddDone(i, ok)

OneEntrySpec == Init /\ [][OneEntryNext]_vars

\* calculatePoints on its own, over Items.
PointsNext == ApplyCalculatePoints

PointsSpec == PointsInit /\ [][PointsNext]_vars

\* The whole component.
Next == FormNext \/ LogNext \/ SessionNext \/ SlotNext \/ AdvisorNext \/ PointsNext
            \/ EntryNext \/ InertNext \/ OneEntryNext

Spec == Init /\ [][Next]_vars

\* ------------------------------------------------------------ claims
AddsInFlight(q) == Cardinality({i \in 1..Len(q) : q[i].kind = "add"})

\* C1: an add called while lookupSuccess is false issues no write and raises
\* the "look up first" message; an add is put in flight only by a call made
\* while lookupSuccess is true.
C1_AddGate ==
    [][/\ AddsInFlight(ops') > AddsInFlight(ops) => lookupSuccess
       /\ handleAddFood /\ ~lookupSuccess =>
              /\ ops' = ops
              /\ remote' = remote
              /\ error' = MsgLookupFirst]_vars

\* C1 witness: an add has just been rejected for want of a lookup.
C1_AddRejected ==
    error = MsgLookupFirst /\ ~lookupSuccess /\ ops = <<>> /\ foodName # ""

\* C2 (as claimed): a reply to a lookup sent for another food name than the
\* current one changes neither the nutrient fields nor lookupSuccess.
C2_StaleReplyIgnored ==
    [][\A i \in 1..MaxLookups, r \in Replies :
          (/\ i <= Len(lookups)
           /\ lookups[i].name # foodName
           /\ LookupReply(i, r))
          => UNCHANGED <<fields, isZeroPoint, lookupSuccess>>]_vars

\* A step in which a lookup request ends.
LookupEnds ==
    \/ \E i \in 1..MaxLookups, k \in FetchErrors : LookupFails(i, k)
    \/ \E i \in 1..MaxLookups, r \in Replies : LookupReply(i, r)

\* C7 (as claimed): a lookup that ends without lookupSuccess leaves all five
\* nutrient fields unset and raises a message.
C7_FailureLeavesFieldsUnset ==
    [][LookupEnds /\ ~lookupSuccess' =>
          fields' = EmptyFields /\ error' # ""]_vars

\* C8 (as claimed): a lookup ends with lookupSuccess only on a reply that
\* holds the five numbers and the boolean.
C8_SuccessOnlyOnWellTypedReply ==
    [][\A i \in 1..MaxLookups, r \in Replies :
          LookupReply(i, r) /\ lookupSuccess' => WellTyped(r)]_vars

\* C9 (as claimed): the timer only empties the slot once the full delay has
\* passed since a message was last raised.
C9_ExpiryCountsFromLastRaise ==
    [][Expire /\ error # "" => age >= ExpiryTicks]_vars

\* C10 (as claimed): a message leaves the slot empty only by expiry.
C10_SlotEmptiedOnlyByExpiry ==
    [][error # "" /\ error' = "" => Expire]_vars

\* C3: the view changes only when a snapshot is delivered, and then becomes
\* exactly that snapshot's documents; add, remove and clear leave it alone.
C3_ViewIsLastSnapshot ==
    [][/\ foodLog' # foodLog => Deliver /\ Head(feed).kind = "snap"
       /\ Deliver /\ Head(feed).kind = "snap" => foodLog' = Head(feed).docs]_vars

\* C3 witness: a committed document of the user's collection that the view
\* does not hold yet, its snapshot still on the way.
C3_CommittedNotYetInView ==
    /\ sub # 0
    /\ feed # <<>>
    /\ \E d \in Collection(remote, userId) : d \notin foodLog

C5_ClearBestEffortOneReport ==
    clear.phase = "done" =>
        /\ clear.attempted = clear.enumerated
        /\ \A id \in clear.enumerated \ clear.failed :
               Doc(id, clear.user) \notin remote
        /\ clear.reports <= 1

\* The parts of C5 that hold: every entry attempted, the others removed.
ClearBestEffort ==
    clear.phase = "done" =>
        /\ clear.attempted = clear.enumerated
        /\ \A id \in clear.enumerated \ clear.failed :
               Doc(id, clear.user) \notin remote

SubOpen == sub # 0 /\ [id |-> sub, user |-> userId] \in listeners
Settled == ops = <<>> /\ clear.phase \in {"idle", "done"}
InSync == foodLog = Collection(remote, userId)

\* C6: with the subscription open and every issued write completed, the view
\* eventually equals the remote collection (unless a new write is issued or
\* the subscription ends first), and once equal with nothing left to deliver
\* it stays equal until a write is issued or the subscription ends.
C6_EventuallyInSync ==
    /\ (SubOpen /\ Settled) ~> (InSync \/ ~SubOpen \/ ~Settled)
    /\ [][(SubOpen /\ Settled /\ InSync /\ feed = <<>>
             /\ SubOpen' /\ Settled') => InSync']_vars

\* C6 witness: the view caught up with a collection that holds documents.
C6_CaughtUp ==
    SubOpen /\ Settled /\ InSync /\ feed = <<>> /\ foodLog # {}

\* A step in which a call to the store fails and the code has a handler for
\* the failure.
StoreFailureHandled ==
    \/ Deliver /\ Head(feed).kind = "err"
    \/ \E i \in 1..MaxOps : AddDone(i, FALSE) \/ DeleteDone(i, FALSE)
    \/ \E id \in 1..MaxDocs : ClearDelete(id, FALSE)
    \/ \E i \in 1..MaxLookups, k \in FetchErrors : LookupFails(i, k)

\* A step in which an advisory request fails.
AdvisoryFailure ==
    \E i \in 1..MaxRequests, k \in AdvisoryOutcomes \ {"ok"} :
        SuggestDone(i, k) \/ AnalyzeDone(i, k)

\* C11 (as claimed): every failure of a remote call, the enumeration of a
\* clear included, raises a message or shows the error panel, and no
\* handler's promise rejects uncaught.
C11_FailuresRecovered ==
    [][/\ (StoreFailureHandled \/ ClearEnumerated(FALSE)) => error' # ""
       /\ AdvisoryFailure => modalContent' = "error"
       /\ ~uncaught']_vars

\* The part of C11 that holds: the failures other than that of the clear's
\* enumeration raise a message or show the error panel.
FailuresWithHandlerRecovered ==
    [][/\ StoreFailureHandled => error' # "" /\ uncaught' = uncaught
       /\ AdvisoryFailure => modalContent' = "error" /\ uncaught' = uncaught]_vars

\* C12: calculatePoints returns a nonnegative integer for every item, and 0
\* for an item whose isZeroPoint is true whatever its other fields hold.
C12_PointsTotalNonnegative ==
    points # NotComputed =>
        /\ points \in Nat
        /\ item.isZeroPoint = "true" => points = 0

\* C12 witness: an item with isZeroPoint true and malformed fields got 0.
C12_ZeroPointMalformed ==
    /\ points = 0
    /\ item.isZeroPoint = "true"
    /\ item.calories = StrVal("abc")
    /\ item.quantity = Absent

\* A field that parseFloat reads as a number, and the number read (d when
\* there is none).
Parseable(v) == parseFloat(v).t = "num"
ParsedOr(v, d) == IF Parseable(v) THEN parseFloat(v).n ELSE d

\* The points the specification gives for calories c, fat f, fiber fi, carbs
\* cb and quantity q: max(0, round(q * (c/33 + f/9 - min(fi, cb/10)/5))).
SpecPoints(c, f, fi, cb, q) ==
    Max(0, Round(q * ((450 * c) + (1650 * f) - (297 * Min(10 * fi, cb))),
                 PointsScale))

NumericItem ==
    /\ item.isZeroPoint = "false"
    /\ \A k \in {"calories", "fat", "fiber", "carbs", "quantity"} :
           Parseable(item[k])
    /\ parseFloat(item.quantity).n > 0

\* C13 (as claimed): for an item with isZeroPoint false, numeric nonnegative
\* calories, fat, fiber and carbs and a positive quantity, the points are
\* max(0, round-half-up(qty * (cal/33 + f/9 - min(fi, c/10)/5))).
C13_PointsFormula ==
    points # NotComputed /\ NumericItem =>
        points = SpecPoints(parseFloat(item.calories).n, parseFloat(item.fat).n,
                            parseFloat(item.fiber).n, parseFloat(item.carbs).n,
                            parseFloat(item.quantity).n)

\* The part of C13 that holds: the formula, for calories other than 0.
PointsFormulaNonzeroCalories ==
    points # NotComputed /\ NumericItem /\ parseFloat(item.calories).n # 0 =>
        points = SpecPoints(parseFloat(item.calories).n, parseFloat(item.fat).n,
                            parseFloat(item.fiber).n, parseFloat(item.carbs).n,
                            parseFloat(item.quantity).n)

\* The calories of the specification: the explicit value when it parses,
\* 4p + 4c + 9f otherwise.
SpecCalories ==
    ParsedOr(item.calories,
             (4 * ParsedOr(item.protein, 0)) + (4 * ParsedOr(item.carbs, 0))
                 + (9 * ParsedOr(item.fat, 0)))

\* C14 (as claimed): the explicit calories are used whenever they parse, 0
\* included, and derived as 4p + 4c + 9f only when they are absent or do
\* not parse (for a quantity other than 0, which C15 is about).
C14_ExplicitCaloriesUsed ==
    (/\ points # NotComputed
     /\ ~Truthy(item.isZeroPoint)
     /\ parseFloat(item.quantity) # NumVal(0)) =>
        points = SpecPoints(SpecCalories, ParsedOr(item.fat, 0),
                            ParsedOr(item.fiber, 0), ParsedOr(item.carbs, 0),
                            ParsedOr(item.quantity, 1))

\* The part of C14 that holds: calories that do not parse are derived, and
\* explicit calories other than 0 are used.
CaloriesUsedUnlessZero ==
    (/\ points # NotComputed
     /\ ~Truthy(item.isZeroPoint)
     /\ parseFloat(item.quantity) # NumVal(0)
     /\ parseFloat(item.calories) # NumVal(0)) =>
        points = SpecPoints(SpecCalories, ParsedOr(item.fat, 0),
                            ParsedOr(item.fiber, 0), ParsedOr(item.carbs, 0),
                            ParsedOr(item.quantity, 1))

\* C15 (as claimed): the multiplier is the quantity whenever it parses, 0
\* included, and 1 only when the quantity is missing or does not parse.
C15_QuantityUsedAsGiven ==
    points # NotComputed /\ ~Truthy(item.isZeroPoint) =>
        points = Max(0, Round(ParsedOr(item.quantity, 1) * pointsPerUnit(item),
                              PointsScale))

\* The part of C15 that holds: a quantity that does not parse counts as 1.
UnparseableQuantityIsOne ==
    (/\ points # NotComputed
     /\ ~Truthy(item.isZeroPoint)
     /\ ~Parseable(item.quantity)) =>
        points = Max(0, Round(pointsPerUnit(item), PointsScale))

\* C16 (as claimed): every item that an add writes to the collection has a
\* non-empty name and a quantity that is a number greater than 0.
C16_WrittenItemWellFormed ==
    [][\A i \in 1..MaxOps :
          AddDone(i, TRUE) =>
              /\ ops[i].name # ""
              /\ ops[i].quantity.t = "num"
              /\ ops[i].quantity.n > 0]_vars

\* The two parts of C16, each on its own.
WrittenNameNonEmpty ==
    [][\A i \in 1..MaxOps : AddDone(i, TRUE) => ops[i].name # ""]_vars
WrittenQuantityPositive ==
    [][\A i \in 1..MaxOps :
          AddDone(i, TRUE) =>
              ops[i].quantity.t = "num" /\ ops[i].quantity.n > 0]_vars

\* The subscriptions opened so far, and the one the mounted component holds.
Opened == 1..(nextSub - 1)
Held == IF sub # 0 /\ life # "unmounted" THEN {sub} ELSE {}

\* C17: every subscription opened is the one held or has been released, and
\* all are released once the component is unmounted; a release happens only
\* on unmount or on a change of user, of the subscription held, which was
\* not released before; and the store has at most one listener registered,
\* that of the subscription held.
C17_ReleasedExactlyOnce ==
    /\ [](released \cup Held = Opened /\ released \cap Held = {})
    /\ [](Cardinality(listeners) <= 1 /\ \A l \in listeners : l.id \in Held)
    /\ [][released' # released =>
              /\ Unmount \/ userId' # userId
              /\ sub # 0 /\ sub \notin released
              /\ released' = released \cup {sub}]_vars

\* C17 witness: two subscriptions were opened, one after the other, and the
\* component is unmounted with both released.
C17_BothReleased ==
    life = "unmounted" /\ Cardinality(released) = 2 /\ listeners = {}

\* A step in which add, remove or clear is called.
LogHandlerCalled ==
    \/ handleAddFood
    \/ \E id \in 1..MaxDocs : handleDeleteFood(id)
    \/ handleClearLog

\* C18: while there is no user identifier no subscription is open and no
\* read or write of the store is issued or in flight, and a call of add,
\* remove or clear raises a message and issues nothing.
C18_InertWithoutUser ==
    /\ [](userId = NoUser =>
             /\ sub = 0 /\ listeners = {} /\ feed = <<>>
             /\ ops = <<>> /\ clear.phase = "idle" /\ remote = {})
    /\ [][userId = NoUser /\ LogHandlerCalled =>
              /\ error' # ""
              /\ UNCHANGED <<ops, clear, remote, feed, sub, listeners>>]_vars

\* C18 witness: with the sign-in failed and a lookup done, an add was
\* refused for want of a connection.
C18_AddRefusedNoUser ==
    /\ userId = NoUser /\ db /\ isAuthReady
    /\ lookupSuccess
    /\ error = MsgNotConnected

\* C19: every step that changes the food name leaves all nutrient fields
\* unset, isZeroPoint false and lookupSuccess false, whatever the lookup
\* workflow was doing.
C19_NameChangeResets ==
    [][foodName' # foodName =>
          /\ fields' = EmptyFields
          /\ isZeroPoint' = "false"
          /\ ~lookupSuccess']_vars

\* C19 witness: the name was changed while a lookup for the previous name
\* was in flight, and the entry is back to unset.
C19_ChangedWhileFetching ==
    /\ lookups # <<>> /\ isFetching
    /\ foodName # "" /\ Head(lookups).name # foodName
    /\ fields = EmptyFields /\ isZeroPoint = "false" /\ ~lookupSuccess

\* C20: the step that handles a failed lookup leaves isFetching false, the
\* step that handles a failed suggest-meal or analyze-day leaves isGenerating
\* false, and a failed add leaves the entry as it was (name, nutrient
\* fields, quantity, unit and lookupSuccess), so each can be issued again.
C20_FailureLeavesRetryable ==
    [][/\ Len(lookups') < Len(lookups) /\ ~lookupSuccess' => ~isFetching'
       /\ AdvisoryFailure => ~isGenerating'
       /\ (\E i \in 1..MaxOps : AddDone(i, FALSE)) =>
              UNCHANGED <<foodName, fields, isZeroPoint, lookupSuccess,
                          quantity, unit>>]_vars

\* C20 witness: an add failed and its entry is still there to be added
\* again, and an advisory request failed and the advisor is free again.
C20_FailedAndFree ==
    /\ error = MsgSaveFailed /\ lookupSuccess /\ foodName # "" /\ ops = <<>>
    /\ modalContent = "error" /\ ~isGenerating /\ requests = <<>>
    /\ ~isFetching

\* Beside C20: a failed remove, and a failed enumeration or deletion of a
\* clear, leave the store and the view as they were and no flag set, and a
\* clear whose enumeration failed can be started again.
FailedRemovalRetryable ==
    [][(\/ \E i \in 1..MaxOps : DeleteDone(i, FALSE)
        \/ \E id \in 1..MaxDocs : ClearDelete(id, FALSE)
        \/ ClearEnumerated(FALSE)) =>
           /\ UNCHANGED <<remote, foodLog, isFetching, isGenerating>>
           /\ ClearEnumerated(FALSE) => clear'.phase = "idle"]_vars

\* A step of an advisory workflow.
AdvisoryStep ==
    \/ \E m \in MealTypes : handleSuggestMeal(m)
    \/ \E i \in 1..MaxRequests, k \in AdvisoryOutcomes :
           SuggestDone(i, k) \/ AnalyzeDone(i, k)
    \/ handleAnalyzeDay
    \/ CloseModal

\* C21: analyze-day called on an empty log raises its message, sends no
\* request and does not start generating; and no step of analyze-day or
\* suggest-meal changes the view or the store, or issues a write.
C21_AdvisorReadOnly ==
    [][/\ handleAnalyzeDay /\ foodLog = {} =>
              /\ error' = MsgLogFirst
              /\ UNCHANGED <<requests, isGenerating, isModalOpen, modalContent>>
       /\ AdvisoryStep => UNCHANGED <<foodLog, remote, nextId, ops, clear, feed>>]_vars

\* C21 witness: analyze-day was refused on an empty log, and the advisor
\* is idle with its modal closed.
C21_RefusedOnEmptyLog ==
    /\ error = MsgLogFirst /\ foodLog = {}
    /\ requests = <<>> /\ ~isGenerating /\ ~isModalOpen

\* C22 (as claimed): the adds of one pending entry write at most one
\* document, however often add is called while an earlier add of the entry
\* is awaiting the store.
C22_OneWritePerEntry ==
    Cardinality(remote) <= 1

\* C23 (as claimed): when an add completes while the form holds another
\* entry, staged by a later lookup under another name, that entry's name,
\* nutrient fields and lookupSuccess are left as they are.
C23_CompletionClearsOwnEntry ==
    [][\A i \in 1..MaxOps :
          (/\ AddDone(i, TRUE)
           /\ ops[i].name # foodName
           /\ lookupSuccess)
          => UNCHANGED <<foodName, fields, isZeroPoint, lookupSuccess>>]_vars

\* C24 (as claimed): every entry of the view belongs to the collection of
\* the current user.
C24_ViewOfCurrentUser ==
    \A d \in foodLog : d.user = userId
====
